---------------------------- MODULE Spec2Model ----------------------------
(***************************************************************************)
(* openai-forward: the process supervisor of openai_forward/__main__.py    *)
(* (class Cli) and the configuration model with its projection to          *)
(* environment variables, openai_forward/config/interface.py.              *)
(***************************************************************************)
EXTENDS Integers, Sequences, FiniteSets, TLC

VARIABLES
    procs,            \* every child process spawned so far; the index is the pid
    uvicorn_proc,     \* Cli.uvicorn_proc: a pid, or NoProc while the attribute is unset
    streamlit_proc,   \* Cli.streamlit_proc: a pid, or NoProc while the attribute is unset
    pc,               \* the position of the (single-threaded) supervisor
    call,             \* the operation in progress and its arguments
    clock,            \* time-units spent in the wait in progress
    result,           \* how the last operation ended
    did,              \* what the _stop in progress did to each handle
    platform_system,  \* platform.system()
    config,           \* the in-memory Config
    env,              \* the mapping convert_to_env returned
    hydrated,         \* the Config come_from_env returned
    cpc               \* the position of the configuration run

supvars == <<procs, uvicorn_proc, streamlit_proc, pc, call, clock, result, did,
             platform_system>>
cfgvars == <<config, env, hydrated, cpc>>
vars == <<procs, uvicorn_proc, streamlit_proc, pc, call, clock, result, did,
          platform_system, config, env, hydrated, cpc>>

----------------------------------------------------------------------------
(* Bounds of the model.                                                    *)

\* the number of child processes one run spawns
MaxProcs == 2
\* the length of an authorization-level string
MaxLen == 3
\* the number of rules of a rate-limit sequence
MaxRules == 2

----------------------------------------------------------------------------
(* The process supervisor, Cli.                                            *)

NoProc == 0

\* wait_for_serve_start(..., timeout=10, ...)
ServeStartTimeout == 10
\* self.uvicorn_proc.wait(timeout=15)
UvicornGrace == 15
\* self.streamlit_proc.wait(timeout=5)
StreamlitGrace == 5

\* run(port=8000, ...): the forwarder's default port
DefaultPort == 8000
\* run(..., ui_port=8001): the dashboard's port
UiPort == 8001
\* the ports a forwarder is started on
Ports == {DefaultPort, DefaultPort + 80}
Platforms == {"Linux", "Windows"}

\* subprocess.Popen([...'--port', str(port)...]): a fresh live child
Popen(kind, port) ==
    [kind |-> kind, port |-> port, alive |-> TRUE, sigint |-> FALSE,
     sigkill |-> FALSE, healthy |-> FALSE]

\* a child that has ended: it holds no port and no pending signal
Exited(proc) ==
    [proc EXCEPT !.alive = FALSE, !.sigint = FALSE, !.sigkill = FALSE,
                 !.healthy = FALSE]

\* a poll that reports every child as running
PollIsNone_Always(p) == TRUE

\* Popen.poll() is None
PollIsNone(p) == procs[p].alive

\* Popen.send_signal(signal.SIGINT)
send_signal(ps, p) ==
    IF ps[p].alive THEN [ps EXCEPT ![p].sigint = TRUE] ELSE ps

\* a kill that sends nothing
kill_Nothing(ps, p) == ps

\* Popen.kill(): SIGKILL is sent and kill() returns; the child dies later
kill(ps, p) ==
    IF ps[p].alive THEN [ps EXCEPT ![p].sigkill = TRUE] ELSE ps

\* a start that never suppresses the failure
suppress_exception_Never == FALSE

\* suppress_exception = platform.system() == "Windows"
suppress_exception == platform_system = "Windows"

NoCall == [op |-> "none", uvicorn |-> FALSE, streamlit |-> FALSE, port |-> 0,
           old |-> NoProc]
NothingDone == [uvicorn |-> "none", streamlit |-> "none"]

\* pc once the _stop in progress has returned: _restart_uvicorn goes on to
\* _start_uvicorn, every other caller is done
AfterStop == IF call.op = "restart" THEN "spawn" ELSE "done"

SupInit ==
    /\ procs = <<>>
    /\ uvicorn_proc = NoProc
    /\ streamlit_proc = NoProc
    /\ pc = "idle"
    /\ call = NoCall
    /\ clock = 0
    /\ result = "none"
    /\ did = NothingDone
    /\ platform_system \in Platforms

\* _start_uvicorn(port, workers) is called
CallStart(port) ==
    /\ pc = "idle"
    /\ Len(procs) < MaxProcs
    /\ call' = [op |-> "start", uvicorn |-> FALSE, streamlit |-> FALSE,
                port |-> port, old |-> uvicorn_proc]
    /\ pc' = "spawn"
    /\ result' = "none"
    /\ did' = NothingDone
    /\ clock' = 0
    /\ UNCHANGED <<procs, uvicorn_proc, streamlit_proc, platform_system>>
    /\ UNCHANGED cfgvars

\* _restart_uvicorn(port=..., workers=...) is called: _stop_uvicorn() first
CallRestart(port) ==
    /\ pc = "idle"
    /\ Len(procs) < MaxProcs
    /\ call' = [op |-> "restart", uvicorn |-> TRUE, streamlit |-> FALSE,
                port |-> port, old |-> uvicorn_proc]
    /\ pc' = "stop_uvicorn"
    /\ result' = "none"
    /\ did' = NothingDone
    /\ clock' = 0
    /\ UNCHANGED <<procs, uvicorn_proc, streamlit_proc, platform_system>>
    /\ UNCHANGED cfgvars

\* _stop(uvicorn, streamlit) is called; _stop_uvicorn is _stop(streamlit=False)
\* and _stop_streamlit is _stop(uvicorn=False)
CallStop(u, s) ==
    /\ pc = "idle"
    /\ call' = [op |-> "stop", uvicorn |-> u, streamlit |-> s, port |-> 0,
                old |-> uvicorn_proc]
    /\ pc' = "stop_uvicorn"
    /\ result' = "none"
    /\ did' = NothingDone
    /\ clock' = 0
    /\ UNCHANGED <<procs, uvicorn_proc, streamlit_proc, platform_system>>
    /\ UNCHANGED cfgvars

\* self.uvicorn_proc = subprocess.Popen(...), then wait_for_serve_start begins
SpawnUvicorn ==
    /\ pc = "spawn"
    /\ procs' = Append(procs, Popen("uvicorn", call.port))
    /\ uvicorn_proc' = Len(procs) + 1
    /\ pc' = "wait_serve"
    /\ clock' = 0
    /\ UNCHANGED <<streamlit_proc, call, result, did, platform_system>>
    /\ UNCHANGED cfgvars

\* wait_for_serve_start: the health check answers, so the call returns
ServeStarted ==
    /\ pc = "wait_serve"
    /\ procs[uvicorn_proc].alive /\ procs[uvicorn_proc].healthy
    /\ pc' = "done"
    /\ result' = "started"
    /\ clock' = 0
    /\ UNCHANGED <<procs, uvicorn_proc, streamlit_proc, call, did, platform_system>>
    /\ UNCHANGED cfgvars

\* wait_for_serve_start: no answer yet and the bound is not reached
ServePoll ==
    /\ pc = "wait_serve"
    /\ ~(procs[uvicorn_proc].alive /\ procs[uvicorn_proc].healthy)
    /\ clock < ServeStartTimeout
    /\ clock' = clock + 1
    /\ UNCHANGED <<procs, uvicorn_proc, streamlit_proc, pc, call, result, did,
                   platform_system>>
    /\ UNCHANGED cfgvars

\* wait_for_serve_start: the bound is reached without an answer; the failure
\* is raised unless suppress_exception
ServeTimeout ==
    /\ pc = "wait_serve"
    /\ ~(procs[uvicorn_proc].alive /\ procs[uvicorn_proc].healthy)
    /\ clock = ServeStartTimeout
    /\ IF suppress_exception
       THEN pc' = "done" /\ result' = "start_suppressed"
       ELSE pc' = "raised" /\ result' = "StartupError"
    /\ UNCHANGED <<procs, uvicorn_proc, streamlit_proc, call, clock, did,
                   platform_system>>
    /\ UNCHANGED cfgvars

\* _stop: if uvicorn and self.uvicorn_proc.poll() is None: send_signal(SIGINT)
StopUvicorn ==
    /\ pc = "stop_uvicorn"
    /\ IF ~call.uvicorn
       THEN /\ pc' = "stop_streamlit"
            /\ UNCHANGED <<procs, result, did>>
       ELSE IF uvicorn_proc = NoProc
       THEN /\ pc' = "raised"
            /\ result' = "AttributeError"
            /\ UNCHANGED <<procs, did>>
       ELSE IF PollIsNone(uvicorn_proc)
       THEN /\ procs' = send_signal(procs, uvicorn_proc)
            /\ did' = [did EXCEPT !.uvicorn = "signalled"]
            /\ pc' = "wait_uvicorn"
            /\ UNCHANGED result
       ELSE /\ did' = [did EXCEPT !.uvicorn = "skipped"]
            /\ pc' = "stop_streamlit"
            /\ UNCHANGED <<procs, result>>
    /\ clock' = 0
    /\ UNCHANGED <<uvicorn_proc, streamlit_proc, call, platform_system>>
    /\ UNCHANGED cfgvars

\* self.uvicorn_proc.wait(timeout=15); except TimeoutExpired: kill()
WaitUvicorn ==
    /\ pc = "wait_uvicorn"
    /\ IF ~procs[uvicorn_proc].alive
       THEN /\ pc' = "stop_streamlit"
            /\ did' = [did EXCEPT !.uvicorn = "exited"]
            /\ clock' = 0
            /\ UNCHANGED procs
       ELSE IF clock < UvicornGrace
       THEN /\ clock' = clock + 1
            /\ UNCHANGED <<procs, pc, did>>
       ELSE /\ procs' = kill(procs, uvicorn_proc)
            /\ did' = [did EXCEPT !.uvicorn = "killed"]
            /\ pc' = "stop_streamlit"
            /\ clock' = 0
    /\ UNCHANGED <<uvicorn_proc, streamlit_proc, call, result, platform_system>>
    /\ UNCHANGED cfgvars

\* _stop: if streamlit and self.streamlit_proc.poll() is None: send_signal(SIGINT)
StopStreamlit ==
    /\ pc = "stop_streamlit"
    /\ IF ~call.streamlit
       THEN /\ pc' = AfterStop
            /\ result' = "stopped"
            /\ UNCHANGED <<procs, did>>
       ELSE IF streamlit_proc = NoProc
       THEN /\ pc' = "raised"
            /\ result' = "AttributeError"
            /\ UNCHANGED <<procs, did>>
       ELSE IF PollIsNone(streamlit_proc)
       THEN /\ procs' = send_signal(procs, streamlit_proc)
            /\ did' = [did EXCEPT !.streamlit = "signalled"]
            /\ pc' = "wait_streamlit"
            /\ UNCHANGED result
       ELSE /\ did' = [did EXCEPT !.streamlit = "skipped"]
            /\ pc' = AfterStop
            /\ result' = "stopped"
            /\ UNCHANGED procs
    /\ clock' = 0
    /\ UNCHANGED <<uvicorn_proc, streamlit_proc, call, platform_system>>
    /\ UNCHANGED cfgvars

\* self.streamlit_proc.wait(timeout=5); except TimeoutExpired: kill()
WaitStreamlit ==
    /\ pc = "wait_streamlit"
    /\ IF ~procs[streamlit_proc].alive
       THEN /\ pc' = AfterStop
            /\ result' = "stopped"
            /\ did' = [did EXCEPT !.streamlit = "exited"]
            /\ clock' = 0
            /\ UNCHANGED procs
       ELSE IF clock < StreamlitGrace
       THEN /\ clock' = clock + 1
            /\ UNCHANGED <<procs, pc, did, result>>
       ELSE /\ procs' = kill(procs, streamlit_proc)
            /\ did' = [did EXCEPT !.streamlit = "killed"]
            /\ pc' = AfterStop
            /\ result' = "stopped"
            /\ clock' = 0
    /\ UNCHANGED <<uvicorn_proc, streamlit_proc, call, platform_system>>
    /\ UNCHANGED cfgvars

\* the dashboard is started (run --start-ui): its handle is kept in
\* self.streamlit_proc
StartStreamlit ==
    /\ pc = "idle"
    /\ streamlit_proc = NoProc
    /\ Len(procs) < MaxProcs
    /\ procs' = Append(procs, Popen("streamlit", UiPort))
    /\ streamlit_proc' = Len(procs) + 1
    /\ UNCHANGED <<uvicorn_proc, pc, call, clock, result, did, platform_system>>
    /\ UNCHANGED cfgvars

\* a child process ends: on its own, on the interrupt, or, with no way to
\* refuse, on SIGKILL
ProcExit(p) ==
    /\ procs[p].alive
    /\ procs' = [procs EXCEPT ![p] = Exited(procs[p])]
    /\ UNCHANGED <<uvicorn_proc, streamlit_proc, pc, call, clock, result, did,
                   platform_system>>
    /\ UNCHANGED cfgvars

\* the forwarder being waited for starts to answer GET /healthz
BecomeHealthy ==
    /\ pc = "wait_serve"
    /\ procs[uvicorn_proc].alive
    /\ ~procs[uvicorn_proc].healthy
    /\ procs' = [procs EXCEPT ![uvicorn_proc].healthy = TRUE]
    /\ UNCHANGED <<uvicorn_proc, streamlit_proc, pc, call, clock, result, did,
                   platform_system>>
    /\ UNCHANGED cfgvars

\* the operation has returned to its caller
Return ==
    /\ pc = "done"
    /\ pc' = "idle"
    /\ call' = NoCall
    /\ result' = "none"
    /\ did' = NothingDone
    /\ clock' = 0
    /\ UNCHANGED <<procs, uvicorn_proc, streamlit_proc, platform_system>>
    /\ UNCHANGED cfgvars

----------------------------------------------------------------------------
(* Python values.  A str that the code takes apart is a sequence of        *)
(* characters; a dict is the sequence of its <<key, value>> items in        *)
(* insertion order; a raised exception is a result that is not ok.         *)

FullWidthComma == "U+FF0C"
Digits == {"0", "1", "2", "3", "4", "5", "6", "7", "8", "9"}
Whitespace == {" "}

DigitValue(ch) ==
    CASE ch = "0" -> 0 [] ch = "1" -> 1 [] ch = "2" -> 2 [] ch = "3" -> 3
      [] ch = "4" -> 4 [] ch = "5" -> 5 [] ch = "6" -> 6 [] ch = "7" -> 7
      [] ch = "8" -> 8 [] ch = "9" -> 9

DigitChar(n) ==
    CASE n = 0 -> "0" [] n = 1 -> "1" [] n = 2 -> "2" [] n = 3 -> "3"
      [] n = 4 -> "4" [] n = 5 -> "5" [] n = 6 -> "6" [] n = 7 -> "7"
      [] n = 8 -> "8" [] n = 9 -> "9"

Ok(v) == [ok |-> TRUE, err |-> "", val |-> v]
Raise(e) == [ok |-> FALSE, err |-> e, val |-> <<>>]

\* str(n) of an int n >= 0
RECURSIVE IntToStr(_)
IntToStr(n) ==
    IF n < 10 THEN <<DigitChar(n)>>
    ELSE Append(IntToStr(n \div 10), DigitChar(n % 10))

\* str(b) of a bool
BoolToStr(b) == IF b THEN "True" ELSE "False"

\* str.strip()
RECURSIVE strip(_)
strip(s) ==
    IF s = <<>> THEN s
    ELSE IF Head(s) \in Whitespace THEN strip(Tail(s))
    ELSE IF s[Len(s)] \in Whitespace THEN strip(SubSeq(s, 1, Len(s) - 1))
    ELSE s

\* str.replace(old, new) of one character by another
replace(s, old, new) == [i \in 1..Len(s) |-> IF s[i] = old THEN new ELSE s[i]]

\* str.split(sep): one more piece than there are separators
RECURSIVE split(_, _)
split(s, sep) ==
    IF \A i \in 1..Len(s) : s[i] # sep THEN <<s>>
    ELSE LET i == CHOOSE k \in 1..Len(s) :
                      s[k] = sep /\ \A j \in 1..(k - 1) : s[j] # sep
         IN  <<SubSeq(s, 1, i - 1)>> \o split(SubSeq(s, i + 1, Len(s)), sep)

RECURSIVE DecimalValue(_)
DecimalValue(s) ==
    IF s = <<>> THEN 0
    ELSE 10 * DecimalValue(SubSeq(s, 1, Len(s) - 1)) + DigitValue(s[Len(s)])

\* int(s): surrounding whitespace is allowed, anything but digits raises
int(s) ==
    LET t == strip(s)
    IN  IF t = <<>> \/ \E i \in 1..Len(t) : t[i] \notin Digits
        THEN Raise("ValueError")
        ELSE Ok(DecimalValue(t))

DictKeys(d) == {d[i][1] : i \in 1..Len(d)}
DictGet(d, k) == d[CHOOSE i \in 1..Len(d) : d[i][1] = k][2]

\* d[k] = v: a key already in the dict keeps its place
DictSet(d, k, v) ==
    IF k \in DictKeys(d)
    THEN [i \in 1..Len(d) |-> IF d[i][1] = k THEN <<k, v>> ELSE d[i]]
    ELSE Append(d, <<k, v>>)

\* json.dumps of a dict with str keys: the members in insertion order
json_dumps_str_keys(d) == [i \in 1..Len(d) |-> <<d[i][1], d[i][2]>>]

\* json.dumps of a dict with int keys: every key becomes a JSON string
json_dumps_int_keys(d) == [i \in 1..Len(d) |-> <<IntToStr(d[i][1]), d[i][2]>>]

\* env_dict.update(other)
update(env_dict, other) == other @@ env_dict

----------------------------------------------------------------------------
(* The configuration model, config/interface.py.                           *)

ForwardItem(base_url, route, type) ==
    [base_url |-> base_url, route |-> route, type |-> type]

RateLimitType(route, value) == [route |-> route, value |-> value]

\* an authorization-level value of openai_key, as a str or as a list
StrValue(chars) == [kind |-> "str", chars |-> chars, ints |-> <<>>]
ListValue(ints) == [kind |-> "list", chars |-> <<>>, ints |-> ints]

Limit(level, limit) == [level |-> level, limit |-> limit]

DefaultForward ==
    << ForwardItem("https://api.openai.com", "/", "openai"),
       ForwardItem("https://generativelanguage.googleapis.com", "/gemini", "general") >>

\* ApiKey()
DefaultApiKey ==
    [openai_key |-> << <<"sk-xx1", ListValue(<<0>>)>> >>,
     forward_key |-> << <<0, <<"fk-1">>>> >>,
     level |-> << <<1, <<"gpt-3.5-turbo">>>> >>]

\* CacheConfig()
DefaultCacheConfig ==
    [backend |-> "LevelDB", root_path_or_url |-> "./FLAXKV_DB",
     default_request_caching_value |-> TRUE, openai |-> FALSE, general |-> FALSE,
     routes |-> <<"/v1/chat/completions">>]

\* RateLimit()
DefaultRateLimit ==
    [backend |-> "", global_rate_limit |-> "inf",
     token_rate_limit |->
        << RateLimitType("/v1/chat/completions", <<Limit(0, "60/second")>>),
           RateLimitType("/v1/completions", <<Limit(0, "60/second")>>) >>,
     req_rate_limit |->
        << RateLimitType("/v1/chat/completions", <<Limit(0, "100/2minutes")>>),
           RateLimitType("/v1/completions", <<Limit(0, "60/minute")>>),
           RateLimitType("/v1/embeddings", <<Limit(0, "100/2minutes")>>) >>,
     iter_chunk |-> "one-by-one", strategy |-> "moving-window"]

\* Log()
DefaultLog == [general |-> TRUE, openai |-> TRUE]

\* Config()
DefaultConfig ==
    [forward |-> DefaultForward, api_key |-> DefaultApiKey,
     cache |-> DefaultCacheConfig, rate_limit |-> DefaultRateLimit,
     log |-> DefaultLog, timezone |-> "Asia/Shanghai", timeout |-> 6,
     benchmark_mode |-> FALSE, proxy |-> "", default_stream_response |-> TRUE]

\* Base.to_dict of a ForwardItem: no field is None, so all three are kept
to_dict(item) ==
    << <<"base_url", item.base_url>>, <<"route", item.route>>,
       <<"type", item.type>> >>

\* json.dumps([i.to_dict() for i in self.forward])
ForwardJson(forward) == [i \in 1..Len(forward) |-> to_dict(forward[i])]

\* CacheConfig.convert_to_env
CacheConfig_convert_to_env(self) ==
    LET e1 == "CACHE_OPENAI" :> BoolToStr(self.openai)
        e2 == update(e1, "CACHE_GENERAL" :> BoolToStr(self.general))
        e3 == update(e2, "CACHE_BACKEND" :> self.backend)
        e4 == update(e3, "CACHE_ROOT_PATH_OR_URL" :> self.root_path_or_url)
        e5 == update(e4, "DEFAULT_REQUEST_CACHING_VALUE" :>
                             BoolToStr(self.default_request_caching_value))
    IN  update(e5, "CACHE_ROUTES" :> self.routes)

\* a filter that keeps a rule whatever its limits
RateLimitKept_RouteOnly(i) == i.route # ""

\* RateLimit.convert_to_env: ... if i.route and i.value
RateLimitKept(i) == i.route # "" /\ i.value # <<>>

\* {i.route: i.value for i in rules if i.route and i.value}
RECURSIVE RateLimitDict(_)
RateLimitDict(rules) ==
    IF rules = <<>> THEN <<>>
    ELSE LET d == RateLimitDict(SubSeq(rules, 1, Len(rules) - 1))
             i == rules[Len(rules)]
         IN  IF RateLimitKept(i) THEN DictSet(d, i.route, i.value) ELSE d

\* RateLimit.convert_to_env
RateLimit_convert_to_env(self) ==
    LET e1 == "GLOBAL_RATE_LIMIT" :> self.global_rate_limit
        e2 == update(e1, "RATE_LIMIT_STRATEGY" :> self.strategy)
        e3 == update(e2, "TOKEN_RATE_LIMIT" :>
                 json_dumps_str_keys(RateLimitDict(self.token_rate_limit)))
        e4 == update(e3, "REQ_RATE_LIMIT" :>
                 json_dumps_str_keys(RateLimitDict(self.req_rate_limit)))
    IN  update(e4, "ITER_CHUNK_TYPE" :> self.iter_chunk)

\* a split on the ASCII comma alone
LevelPieces_AsciiOnly(chars) == split(strip(chars), ",")

\* value.strip().replace('，', ',').split(',')
LevelPieces(chars) == split(replace(strip(chars), FullWidthComma, ","), ",")

\* values = value.strip()...; [int(i) for i in values]
ParseLevels(value) ==
    IF value.kind # "str" THEN Raise("AttributeError")
    ELSE LET values == LevelPieces(value.chars)
         IN  IF \E n \in 1..Len(values) : ~int(values[n]).ok
             THEN Raise("ValueError")
             ELSE Ok([n \in 1..Len(values) |-> int(values[n]).val])

\* for key, value in self.openai_key.items(): openai_key_dict[key] = ...
RECURSIVE OpenaiKeyDict(_)
OpenaiKeyDict(items) ==
    IF items = <<>> THEN Ok(<<>>)
    ELSE LET d == OpenaiKeyDict(SubSeq(items, 1, Len(items) - 1))
             key == items[Len(items)][1]
             levels == ParseLevels(items[Len(items)][2])
         IN  IF ~d.ok THEN d
             ELSE IF ~levels.ok THEN levels
             ELSE Ok(DictSet(d.val, key, levels.val))

\* ApiKey.convert_to_env
ApiKey_convert_to_env(self) ==
    LET openai_key_dict == OpenaiKeyDict(self.openai_key)
    IN  IF ~openai_key_dict.ok THEN openai_key_dict
        ELSE LET e1 == "OPENAI_API_KEY_CONFIG" :>
                           json_dumps_str_keys(openai_key_dict.val)
                 e2 == update(e1, "FORWARD_KEY_CONFIG" :>
                           json_dumps_int_keys(self.forward_key))
             IN  Ok(update(e2, "LEVEL_MODELS" :>
                           json_dumps_int_keys(self.level)))

\* Log.convert_to_env
Log_convert_to_env(self) ==
    update("LOG_GENERAL" :> BoolToStr(self.general),
           "LOG_OPENAI" :> BoolToStr(self.openai))

\* a projection that emits the proxy key whatever its value
SetProxy_Always(env_dict, self) == update(env_dict, "PROXY" :> self.proxy)

\* if self.proxy: env_dict['PROXY'] = self.proxy
SetProxy(env_dict, self) ==
    IF self.proxy # "" THEN update(env_dict, "PROXY" :> self.proxy) ELSE env_dict

\* Config.convert_to_env(set_env=False)
Config_convert_to_env(self) ==
    LET api_key == ApiKey_convert_to_env(self.api_key)
    IN  IF ~api_key.ok THEN api_key
        ELSE LET e1 == "FORWARD_CONFIG" :> ForwardJson(self.forward)
                 e2 == update(e1, api_key.val)
                 e3 == update(e2, CacheConfig_convert_to_env(self.cache))
                 e4 == update(e3, RateLimit_convert_to_env(self.rate_limit))
                 e5 == update(e4, Log_convert_to_env(self.log))
                 e6 == update(e5, "TZ" :> self.timezone)
                 e7 == update(e6, "TIMEOUT" :> IntToStr(self.timeout))
                 e8 == update(e7, "BENCHMARK_MODE" :> BoolToStr(self.benchmark_mode))
                 e9 == update(e8, "DEFAULT_STREAM_RESPONSE" :>
                                      BoolToStr(self.default_stream_response))
             IN  Ok(SetProxy(e9, self))

----------------------------------------------------------------------------
(* Hydration: config/settings.py reads the environment into the constants  *)
(* that Config.come_from_env copies into the model.                        *)

\* the text of an environment key, "" when the key is absent
EnvText(e, key) == IF key \in DOMAIN e THEN e[key] ELSE ""

\* a flag of the environment: absent or empty keeps the default
EnvBool(e, key, default) ==
    IF EnvText(e, key) = "" THEN default
    ELSE EnvText(e, key) \in {"True", "true", "TRUE"}

\* a text of the environment: absent or empty keeps the default
EnvStr(e, key, default) ==
    IF EnvText(e, key) = "" THEN default ELSE EnvText(e, key)

\* json.loads of an object with str keys: a repeated key keeps its last value
RECURSIVE json_loads_str_keys(_)
json_loads_str_keys(j) ==
    IF j = <<>> THEN <<>>
    ELSE DictSet(json_loads_str_keys(SubSeq(j, 1, Len(j) - 1)),
                 j[Len(j)][1], j[Len(j)][2])

\* json.loads of an object whose keys are authorization levels
RECURSIVE json_loads_int_keys(_)
json_loads_int_keys(j) ==
    IF j = <<>> THEN <<>>
    ELSE DictSet(json_loads_int_keys(SubSeq(j, 1, Len(j) - 1)),
                 DecimalValue(j[Len(j)][1]), j[Len(j)][2])

TIMEOUT(e) ==
    IF "TIMEOUT" \in DOMAIN e /\ e["TIMEOUT"] # <<>>
    THEN DecimalValue(e["TIMEOUT"]) ELSE DefaultConfig.timeout
BENCHMARK_MODE(e) == EnvBool(e, "BENCHMARK_MODE", DefaultConfig.benchmark_mode)
PROXY(e) == EnvText(e, "PROXY")
LOG_OPENAI(e) == EnvBool(e, "LOG_OPENAI", DefaultLog.openai)
LOG_GENERAL(e) == EnvBool(e, "LOG_GENERAL", DefaultLog.general)
RATE_LIMIT_STRATEGY(e) == EnvStr(e, "RATE_LIMIT_STRATEGY", DefaultRateLimit.strategy)
GLOBAL_RATE_LIMIT(e) == EnvStr(e, "GLOBAL_RATE_LIMIT", DefaultRateLimit.global_rate_limit)
ITER_CHUNK_TYPE(e) == EnvStr(e, "ITER_CHUNK_TYPE", DefaultRateLimit.iter_chunk)
RATE_LIMIT_BACKEND(e) == EnvText(e, "RATE_LIMIT_BACKEND")
req_rate_limit_dict(e) ==
    IF "REQ_RATE_LIMIT" \in DOMAIN e
    THEN json_loads_str_keys(e["REQ_RATE_LIMIT"]) ELSE <<>>
token_rate_limit_conf(e) ==
    IF "TOKEN_RATE_LIMIT" \in DOMAIN e
    THEN json_loads_str_keys(e["TOKEN_RATE_LIMIT"]) ELSE <<>>
CACHE_BACKEND(e) == EnvStr(e, "CACHE_BACKEND", DefaultCacheConfig.backend)
CACHE_ROOT_PATH_OR_URL(e) ==
    EnvStr(e, "CACHE_ROOT_PATH_OR_URL", DefaultCacheConfig.root_path_or_url)
DEFAULT_REQUEST_CACHING_VALUE(e) ==
    EnvBool(e, "DEFAULT_REQUEST_CACHING_VALUE",
            DefaultCacheConfig.default_request_caching_value)
CACHE_OPENAI(e) == EnvBool(e, "CACHE_OPENAI", FALSE)
CACHE_GENERAL(e) == EnvBool(e, "CACHE_GENERAL", FALSE)
CACHE_ROUTE_SET(e) ==
    IF "CACHE_ROUTES" \in DOMAIN e
    THEN {e["CACHE_ROUTES"][i] : i \in 1..Len(e["CACHE_ROUTES"])} ELSE {}
LEVEL_MODELS(e) ==
    IF "LEVEL_MODELS" \in DOMAIN e
    THEN json_loads_int_keys(e["LEVEL_MODELS"]) ELSE <<>>
OPENAI_API_KEY(e) ==
    IF "OPENAI_API_KEY_CONFIG" \in DOMAIN e
    THEN LET d == json_loads_str_keys(e["OPENAI_API_KEY_CONFIG"])
         IN  [i \in 1..Len(d) |-> <<d[i][1], ListValue(d[i][2])>>]
    ELSE <<>>
LEVEL_TO_FWD_KEY(e) ==
    IF "FORWARD_KEY_CONFIG" \in DOMAIN e
    THEN json_loads_int_keys(e["FORWARD_KEY_CONFIG"]) ELSE <<>>
FORWARD_CONFIG(e) ==
    IF "FORWARD_CONFIG" \in DOMAIN e
    THEN [i \in 1..Len(e["FORWARD_CONFIG"]) |->
              json_loads_str_keys(e["FORWARD_CONFIG"][i])]
    ELSE <<>>

\* list(a set): the elements in an order of the interpreter's choosing
Orders(S) ==
    {o \in [1..Cardinality(S) -> S] : \A i, j \in DOMAIN o : o[i] = o[j] => i = j}

\* x or y, for sequences and dicts
OrElse(x, y) == IF x # <<>> THEN x ELSE y

\* [RateLimitType(key, value) for key, value in d.items()]
RateLimitList(d) == [i \in 1..Len(d) |-> RateLimitType(d[i][1], d[i][2])]

\* ForwardItem(**i)
ForwardItemFromDict(i) ==
    ForwardItem(DictGet(i, "base_url"), DictGet(i, "route"), DictGet(i, "type"))

\* Config.come_from_env, with cache_routes the order list(CACHE_ROUTE_SET) has
come_from_env(self, e, cache_routes) ==
    [self EXCEPT
        !.timeout = TIMEOUT(e),
        !.timezone = IF "TZ" \in DOMAIN e THEN e["TZ"] ELSE "Asia/Shanghai",
        !.benchmark_mode = BENCHMARK_MODE(e),
        !.proxy = PROXY(e),
        !.log.openai = LOG_OPENAI(e),
        !.log.general = LOG_GENERAL(e),
        !.rate_limit.strategy = RATE_LIMIT_STRATEGY(e),
        !.rate_limit.global_rate_limit = GLOBAL_RATE_LIMIT(e),
        !.rate_limit.iter_chunk = ITER_CHUNK_TYPE(e),
        !.rate_limit.backend =
            IF RATE_LIMIT_BACKEND(e) # "" THEN RATE_LIMIT_BACKEND(e)
            ELSE self.rate_limit.backend,
        !.rate_limit.req_rate_limit =
            OrElse(RateLimitList(req_rate_limit_dict(e)), self.rate_limit.req_rate_limit),
        !.rate_limit.token_rate_limit =
            OrElse(RateLimitList(token_rate_limit_conf(e)),
                   self.rate_limit.token_rate_limit),
        !.cache.backend = CACHE_BACKEND(e),
        !.cache.root_path_or_url = CACHE_ROOT_PATH_OR_URL(e),
        !.cache.default_request_caching_value = DEFAULT_REQUEST_CACHING_VALUE(e),
        !.cache.openai = CACHE_OPENAI(e) \/ self.cache.openai,
        !.cache.general = CACHE_GENERAL(e) \/ self.cache.general,
        !.cache.routes = OrElse(cache_routes, self.cache.routes),
        !.api_key.level = OrElse(LEVEL_MODELS(e), self.api_key.level),
        !.api_key.openai_key = OrElse(OPENAI_API_KEY(e), self.api_key.openai_key),
        !.api_key.forward_key = OrElse(LEVEL_TO_FWD_KEY(e), self.api_key.forward_key),
        !.forward = [i \in 1..Len(FORWARD_CONFIG(e)) |->
                         ForwardItemFromDict(FORWARD_CONFIG(e)[i])]]

----------------------------------------------------------------------------
(* The configurations of the model.                                        *)

LevelChars == {"1", "2", " ", ",", FullWidthComma, "a"}
LevelStrings == UNION {[1..n -> LevelChars] : n \in 0..MaxLen}
MixedCommas == <<"1", ",", " ", "2", FullWidthComma, "3">>
LevelLists == {<<>>, <<0>>, <<1, 2>>}
LevelValues ==
    {StrValue(chars) : chars \in LevelStrings \cup {MixedCommas}}
        \cup {ListValue(ints) : ints \in LevelLists}
FewLevelValues ==
    {StrValue(<<"1">>), StrValue(<<"1", ",", "2">>), StrValue(<<"a">>),
     ListValue(<<0>>)}
KeyDicts ==
    {<<>>} \cup {<< <<"sk-a", v>> >> : v \in LevelValues}
           \cup {<< <<"sk-a", v>>, <<"sk-b", w>> >> : v, w \in FewLevelValues}

Routes == {"", "/v1/chat/completions", "/v1/completions"}
LimitLists ==
    {<<>>, <<Limit(0, "60/second")>>,
     <<Limit(0, "60/second"), Limit(1, "100/2minutes")>>}
Rules == {RateLimitType(route, value) : route \in Routes, value \in LimitLists}
RuleSeqs == UNION {[1..n -> Rules] : n \in 0..MaxRules}

\* the default configuration with its provider key's levels given as a str
BaseConfig ==
    [DefaultConfig EXCEPT !.api_key.openai_key = << <<"sk-xx1", StrValue(<<"0">>)>> >>]

KeyConfigs ==
    {[DefaultConfig EXCEPT !.api_key.openai_key = k, !.proxy = x] :
        k \in KeyDicts, x \in {"", "http://127.0.0.1:7890"}}

RateConfigs ==
    {[BaseConfig EXCEPT !.rate_limit.token_rate_limit = t] : t \in RuleSeqs}
        \cup {[BaseConfig EXCEPT !.rate_limit.req_rate_limit = r] : r \in RuleSeqs}

GlobalConfigs ==
    {[BaseConfig EXCEPT !.forward = f, !.timezone = tz, !.timeout = t,
                        !.benchmark_mode = b, !.proxy = x,
                        !.default_stream_response = d] :
        f \in {DefaultForward, <<DefaultForward[2], DefaultForward[1]>>, <<>>},
        tz \in {"Asia/Shanghai", "UTC"}, t \in {0, 6, 30, 125},
        b \in BOOLEAN, x \in {"", "http://127.0.0.1:7890"}, d \in BOOLEAN}

CacheLogConfigs ==
    {[BaseConfig EXCEPT !.log.general = lg, !.log.openai = lo, !.cache.openai = co,
                        !.cache.general = cg,
                        !.cache.default_request_caching_value = cd,
                        !.cache.routes = cr, !.cache.backend = cb] :
        lg \in BOOLEAN, lo \in BOOLEAN, co \in BOOLEAN, cg \in BOOLEAN,
        cd \in BOOLEAN,
        cr \in {<<>>, <<"/v1/chat/completions">>,
                <<"/v1/chat/completions", "/v1/embeddings">>},
        cb \in {"LevelDB", "MEMORY"}}

PolicyConfigs ==
    {[BaseConfig EXCEPT !.rate_limit.backend = rb, !.rate_limit.strategy = st,
                        !.rate_limit.iter_chunk = ic,
                        !.rate_limit.global_rate_limit = gl,
                        !.api_key.forward_key = fk, !.api_key.level = lv] :
        rb \in {"", "redis://localhost:6379"},
        st \in {"fixed_window", "moving-window", "fixed-window-elastic-expiry"},
        ic \in {"one-by-one", "efficiency"}, gl \in {"inf", "100/minute"},
        fk \in {<<>>, << <<0, <<"fk-1">>>> >>,
                << <<0, <<"fk-1">>>>, <<12, <<"fk-2", "fk-3">>>> >>},
        lv \in {<<>>, << <<1, <<"gpt-3.5-turbo">>>> >>}}

Configs ==
    KeyConfigs \cup RateConfigs \cup GlobalConfigs \cup CacheLogConfigs
        \cup PolicyConfigs

----------------------------------------------------------------------------
(* The configuration run: a Config is built, projected, and a default      *)
(* Config is hydrated from the projection; gen_config projects Config().   *)

CfgInit ==
    /\ config \in Configs
    /\ env = Raise("unset")
    /\ hydrated = DefaultConfig
    /\ cpc = "new"

\* env_dict = config.convert_to_env(set_env=False)
ConvertToEnv ==
    /\ cpc = "new"
    /\ env' = Config_convert_to_env(config)
    /\ cpc' = IF env'.ok THEN "projected" ELSE "raised"
    /\ UNCHANGED <<config, hydrated>>
    /\ UNCHANGED supvars

\* Config().come_from_env(), the environment being the projection
ComeFromEnv ==
    /\ cpc = "projected"
    /\ \E cache_routes \in Orders(CACHE_ROUTE_SET(env.val)) :
          hydrated' = come_from_env(DefaultConfig, env.val, cache_routes)
    /\ cpc' = "hydrated"
    /\ UNCHANGED <<config, env>>
    /\ UNCHANGED supvars

\* Cli.gen_config: Config().convert_to_env(set_env=False), then the .env file,
\* one key=value line per item, is written
GenConfig ==
    /\ cpc = "new"
    /\ env' = Config_convert_to_env(DefaultConfig)
    /\ cpc' = IF env'.ok THEN "generated" ELSE "gen_raised"
    /\ UNCHANGED <<config, hydrated>>
    /\ UNCHANGED supvars

ConfigInit == CfgInit /\ SupInit

ConfigNext ==
    \/ ConvertToEnv
    \/ ComeFromEnv
    \/ GenConfig

ConfigSpec == ConfigInit /\ [][ConfigNext]_vars

\* no configuration run is in progress
CfgIdle ==
    /\ config = DefaultConfig
    /\ env = Raise("unset")
    /\ hydrated = DefaultConfig
    /\ cpc = "off"

Init == SupInit /\ CfgIdle

Next ==
    \/ \E port \in Ports : CallStart(port)
    \/ \E port \in Ports : CallRestart(port)
    \/ \E u, s \in BOOLEAN : CallStop(u, s)
    \/ SpawnUvicorn
    \/ ServeStarted
    \/ ServePoll
    \/ ServeTimeout
    \/ StopUvicorn
    \/ WaitUvicorn
    \/ StopStreamlit
    \/ WaitStreamlit
    \/ StartStreamlit
    \/ \E p \in 1..Len(procs) : ProcExit(p)
    \/ BecomeHealthy
    \/ Return

Spec == Init /\ [][Next]_vars

\* the supervisor never stalls, and the operating system delivers SIGKILL
FairSpec ==
    /\ Spec
    /\ WF_vars(SpawnUvicorn)
    /\ WF_vars(ServeStarted)
    /\ WF_vars(ServePoll)
    /\ WF_vars(ServeTimeout)
    /\ WF_vars(StopUvicorn)
    /\ WF_vars(WaitUvicorn)
    /\ WF_vars(StopStreamlit)
    /\ WF_vars(WaitStreamlit)
    /\ \A p \in 1..MaxProcs :
          WF_vars(p <= Len(procs) /\ procs[p].sigkill /\ ProcExit(p))

----------------------------------------------------------------------------
(* The supervisor's claims.                                                *)

Pids == 1..Len(procs)
Forwarders == {p \in Pids : procs[p].kind = "uvicorn"}
StopStates == {"stop_uvicorn", "wait_uvicorn", "stop_streamlit", "wait_streamlit"}

\* the supervisor state of the design, read off the position of the code
SupervisorState ==
    IF pc = "raised" /\ result = "StartupError" THEN "Failed"
    ELSE IF pc \in {"spawn", "wait_serve"} THEN "Starting"
    ELSE IF pc \in StopStates THEN "Stopping"
    ELSE IF pc = "done" /\ result \in {"started", "start_suppressed"} THEN "Running"
    ELSE IF pc = "done" /\ result = "stopped" THEN "Stopped"
    ELSE "Other"

\* C1: in every restart the new forwarder is spawned only after the old one
\* has exited, so the old and the new forwarder are never alive together on
\* the restart's port
C1_RestartNonOverlap ==
    (call.op = "restart" /\ call.old # NoProc /\ uvicorn_proc # call.old)
        => /\ ~procs[call.old].alive
           /\ ~\E p \in Forwarders \ {uvicorn_proc} :
                  /\ procs[p].alive
                  /\ procs[uvicorn_proc].alive
                  /\ procs[p].port = procs[uvicorn_proc].port

\* C2: at most one forwarder process is alive at any time, and a live
\* forwarder is the one the handle names
C2_AtMostOneLiveForwarder ==
    /\ Cardinality({p \in Forwarders : procs[p].alive}) <= 1
    /\ \A p \in Forwarders : procs[p].alive => uvicorn_proc = p

HasExited(p) == p \in Pids /\ ~procs[p].alive

\* the handles the _stop in progress targets all exist
TargetsExist ==
    /\ call.uvicorn => uvicorn_proc # NoProc
    /\ call.streamlit => streamlit_proc # NoProc

C4_StartOutcome ==
    /\ [](pc = "wait_serve" =>
            /\ SupervisorState = "Starting"
            /\ clock <= 10
            /\ procs[uvicorn_proc].kind = "uvicorn"
            /\ procs[uvicorn_proc].port = call.port)
    /\ [][(pc = "spawn" /\ pc' # pc) => pc' = "wait_serve"]_vars
    /\ [][(pc = "wait_serve" /\ pc' # pc) =>
            IF procs[uvicorn_proc].alive /\ procs[uvicorn_proc].healthy
            THEN SupervisorState' = "Running" /\ result' = "started"
            ELSE /\ clock = 10
                 /\ IF platform_system = "Windows"
                    THEN SupervisorState' = "Running" /\ result' = "start_suppressed"
                    ELSE SupervisorState' = "Failed" /\ result' = "StartupError"]_vars
    /\ [](result = "StartupError" => pc = "raised")

\* C4 witness: a start on a platform other than Windows ended Failed after
\* the whole bound went by without a healthy forwarder
C4_Witness ==
    /\ SupervisorState = "Failed"
    /\ call.op = "start"
    /\ platform_system # "Windows"
    /\ clock = 10

\* C5: a _stop step on a targeted handle whose process has exited sends no
\* signal, kills nothing, raises nothing and leaves every process and both
\* handles as they were
C5_StopExitedIsNoOp ==
    /\ [][(pc = "stop_uvicorn" /\ pc' # pc /\ call.uvicorn /\ uvicorn_proc # NoProc
             /\ ~procs[uvicorn_proc].alive)
              => /\ procs' = procs
                 /\ uvicorn_proc' = uvicorn_proc /\ streamlit_proc' = streamlit_proc
                 /\ did'.uvicorn = "skipped"
                 /\ pc' = "stop_streamlit" /\ result' = result]_vars
    /\ [][(pc = "stop_streamlit" /\ pc' # pc /\ call.streamlit
             /\ streamlit_proc # NoProc /\ ~procs[streamlit_proc].alive)
              => /\ procs' = procs
                 /\ uvicorn_proc' = uvicorn_proc /\ streamlit_proc' = streamlit_proc
                 /\ did'.streamlit = "skipped"
                 /\ pc' = AfterStop /\ result' = "stopped"]_vars

\* C5 witness: a stop of both handles, both already exited, has returned
\* having skipped both
C5_Witness ==
    /\ pc = "done" /\ call.op = "stop" /\ result = "stopped"
    /\ call.uvicorn /\ call.streamlit
    /\ did = [uvicorn |-> "skipped", streamlit |-> "skipped"]

----------------------------------------------------------------------------
(* The configuration's claims.                                             *)

ProviderKeys == config.api_key.openai_key

\* the provider keys map to sequences of integer levels, as the data model has it
WellTyped(c) ==
    \A i \in 1..Len(c.api_key.openai_key) : c.api_key.openai_key[i][2].kind = "list"

\* C6: the projection of a configuration whose provider keys map to
\* sequences of integers, the default Config of gen_config among them,
\* returns a mapping and does not raise
C6_ProjectionTotalOnWellTyped ==
    /\ cpc = "raised" => ~WellTyped(config)
    /\ cpc # "gen_raised"

\* the keys of section 6 that every projection holds
UnconditionalKeys ==
    {"FORWARD_CONFIG", "OPENAI_API_KEY_CONFIG", "FORWARD_KEY_CONFIG", "LEVEL_MODELS",
     "CACHE_OPENAI", "CACHE_GENERAL", "CACHE_BACKEND", "CACHE_ROOT_PATH_OR_URL",
     "DEFAULT_REQUEST_CACHING_VALUE", "CACHE_ROUTES", "GLOBAL_RATE_LIMIT",
     "RATE_LIMIT_STRATEGY", "TOKEN_RATE_LIMIT", "REQ_RATE_LIMIT", "ITER_CHUNK_TYPE",
     "LOG_GENERAL", "LOG_OPENAI", "TZ", "TIMEOUT", "BENCHMARK_MODE",
     "DEFAULT_STREAM_RESPONSE"}

\* C7: a projection that succeeds holds exactly the 21 unconditional keys,
\* and the proxy key if and only if the proxy is not empty
C7_KeySet ==
    cpc = "projected" =>
        /\ Cardinality(UnconditionalKeys) = 21
        /\ DOMAIN env.val =
              UnconditionalKeys \cup (IF config.proxy # "" THEN {"PROXY"} ELSE {})
        /\ "PROXY" \in DOMAIN env.val => env.val["PROXY"] # ""

\* C7 witness: a configuration with an empty proxy has been projected and the
\* mapping holds no proxy key
C7_Witness ==
    /\ cpc = "projected"
    /\ config.proxy = ""
    /\ "PROXY" \notin DOMAIN env.val
    /\ UnconditionalKeys \subseteq DOMAIN env.val

\* the levels a provider key stands for, whichever way they were given
LevelsOf(value) == IF value.kind = "str" THEN ParseLevels(value).val ELSE value.ints

AsSet(seq) == {seq[i] : i \in 1..Len(seq)}

\* C8: the Config hydrated from the projection of a Config equals it field
\* for field, the proxy only when it is not empty
C8_RoundTrip ==
    cpc = "hydrated" =>
        /\ hydrated.forward = config.forward
        /\ hydrated.api_key.openai_key =
              [i \in 1..Len(ProviderKeys) |->
                   <<ProviderKeys[i][1], ListValue(LevelsOf(ProviderKeys[i][2]))>>]
        /\ hydrated.api_key.forward_key = config.api_key.forward_key
        /\ hydrated.api_key.level = config.api_key.level
        /\ hydrated.cache.backend = config.cache.backend
        /\ hydrated.cache.root_path_or_url = config.cache.root_path_or_url
        /\ hydrated.cache.default_request_caching_value =
              config.cache.default_request_caching_value
        /\ hydrated.cache.openai = config.cache.openai
        /\ hydrated.cache.general = config.cache.general
        /\ AsSet(hydrated.cache.routes) = AsSet(config.cache.routes)
        /\ hydrated.rate_limit = config.rate_limit
        /\ hydrated.log = config.log
        /\ hydrated.timezone = config.timezone
        /\ hydrated.timeout = config.timeout
        /\ hydrated.benchmark_mode = config.benchmark_mode
        /\ hydrated.default_stream_response = config.default_stream_response
        /\ config.proxy # "" => hydrated.proxy = config.proxy

\* the mapping holds the rule: its route with its limits
HasEntry(mapping, rule) ==
    \E n \in 1..Len(mapping) : mapping[n] = <<rule.route, rule.value>>

NonEmptyRule(rule) == rule.route # "" /\ rule.value # <<>>

LastLimits(rules, route) ==
    rules[CHOOSE n \in 1..Len(rules) :
              /\ NonEmptyRule(rules[n]) /\ rules[n].route = route
              /\ \A m \in (n + 1)..Len(rules) :
                    ~(NonEmptyRule(rules[m]) /\ rules[m].route = route)].value

FilteredLastWins(mapping, rules) ==
    \A n \in 1..Len(rules) :
        HasEntry(mapping, rules[n])
            <=> (NonEmptyRule(rules[n])
                   /\ LastLimits(rules, rules[n].route) = rules[n].value)

Commas(s) == {i \in 1..Len(s) : s[i] \in {",", FullWidthComma}}

\* the place of the k-th comma; 0 before the first, past the end after the last
CommaAt(s, k) ==
    IF k = 0 THEN 0
    ELSE IF k > Cardinality(Commas(s)) THEN Len(s) + 1
    ELSE CHOOSE i \in Commas(s) : Cardinality({j \in Commas(s) : j < i}) = k - 1

Piece(s, k) == SubSeq(s, CommaAt(s, k - 1) + 1, CommaAt(s, k) - 1)

\* digits, with spaces before and after at most
Numeric(piece) ==
    \E a, b \in 1..Len(piece) :
        /\ a <= b
        /\ \A i \in 1..Len(piece) :
              IF a <= i /\ i <= b THEN piece[i] \in Digits ELSE piece[i] = " "

RECURSIVE Pow10(_)
Pow10(n) == IF n = 0 THEN 1 ELSE 10 * Pow10(n - 1)

RECURSIVE SumOver(_, _)
SumOver(digits, n) ==
    IF n = 0 THEN 0
    ELSE SumOver(digits, n - 1) + DigitValue(digits[n]) * Pow10(Len(digits) - n)

NumberOf(piece) ==
    LET digits == SelectSeq(piece, LAMBDA ch : ch \in Digits)
    IN  SumOver(digits, Len(digits))

AllNumeric(s) == \A k \in 1..(Cardinality(Commas(s)) + 1) : Numeric(Piece(s, k))

Numbers(s) == [k \in 1..(Cardinality(Commas(s)) + 1) |-> NumberOf(Piece(s, k))]

GivenAsStr(i) == ProviderKeys[i][2].kind = "str"

\* C10: a projection that succeeds holds, for every provider key given as a
\* string, the integers between its commas of either width, in their order;
\* a piece that is not a number makes the projection raise, and strings of
\* numbers alone make it succeed
C10_LevelStrings ==
    cpc \in {"projected", "raised"} =>
        /\ env.ok =>
              \A i \in 1..Len(ProviderKeys) :
                  GivenAsStr(i) =>
                      <<ProviderKeys[i][1], Numbers(ProviderKeys[i][2].chars)>>
                          \in AsSet(env.val["OPENAI_API_KEY_CONFIG"])
        /\ (\E i \in 1..Len(ProviderKeys) :
                GivenAsStr(i) /\ ~AllNumeric(ProviderKeys[i][2].chars))
              => (~env.ok /\ cpc = "raised")
        /\ (\A i \in 1..Len(ProviderKeys) : GivenAsStr(i))
              => IF \A i \in 1..Len(ProviderKeys) : AllNumeric(ProviderKeys[i][2].chars)
                 THEN env.ok /\ Len(env.val["OPENAI_API_KEY_CONFIG"]) = Len(ProviderKeys)
                 ELSE env = Raise("ValueError")

\* C10 witness: the levels "1, 2，3" of a provider key have been projected
\* to [1, 2, 3]
C10_Witness ==
    /\ cpc = "projected"
    /\ ProviderKeys = << <<"sk-a", StrValue(MixedCommas)>> >>
    /\ env.val["OPENAI_API_KEY_CONFIG"] = << <<"sk-a", <<1, 2, 3>>>> >>

============================================================================
